---- MODULE Spec2Model ----
(***************************************************************************)
(* A model of LonelyEngineMK1: the Engine frame loop (src/src/engine.rs),  *)
(* the EventBus (src/src/event.rs), the double-buffered Renderer           *)
(* (src/src/renderer.rs) and the GameObject record                         *)
(* (src/src/game_object.rs).                                               *)
(*                                                                         *)
(* Conventions.                                                            *)
(*  - Vec indices are 0-based in the source and 1-based here: the command  *)
(*    DespawnObject(i) addresses objects[i + 1].                           *)
(*  - f32 seconds are counted in whole ticks of 0.05 s (0.1 s = 2 ticks,   *)
(*    10.0 s = 200 ticks); rounding of f32 addition is not modelled.       *)
(*  - A String is a sequence of tokens; String::new() is << >>, push_str   *)
(*    and push are \o.  Option<String> is << >> (None) or <<s>> (Some(s)). *)
(*  - HashSet iteration order is unspecified: every operation that         *)
(*    iterates a HashSet takes the order as an input.                      *)
(*  - A panic unwinds through Engine::run: pc becomes "panicked" and no    *)
(*    further step is taken.                                               *)
(***************************************************************************)
EXTENDS Integers, Sequences, FiniteSets, TLC

VARIABLES
    pc,             \* position in Engine::run (engine.rs:93-116)
    running,        \* Engine.running
    objects,        \* Engine.objects
    updatables,     \* Engine.updatables (number of registered systems)
    commands,       \* Engine.commands
    subscribers,    \* Engine.event_bus.subscribers
    previous_keys,  \* Engine.previous_keys
    active_keys,    \* Engine.active_keys
    width,          \* Renderer.width
    height,         \* Renderer.height
    front_buffer,   \* Renderer.front_buffer
    back_buffer,    \* Renderer.back_buffer
    \* observations; a frame of Engine::run starts them afresh
    trace,          \* what the operations did, in order
    queue,          \* the commands drained by update
    snaps,          \* objects and running before the first drained command and
                    \* after each one
    last_op,        \* the last operation called and its inputs
    present_ret,    \* the value returned by present()
    output,         \* the cells printed by present()
    cleanups,       \* observation: number of cleanup_terminal() calls
    overflow_checks \* build setting: do `+` and `-` panic on overflow

engineVars == <<pc, running, objects, updatables, commands, previous_keys, active_keys,
               overflow_checks>>
busVars    == <<subscribers>>
rendVars   == <<width, height, front_buffer, back_buffer>>
obsVars    == <<trace, queue, snaps, last_op, present_ret, output, cleanups>>
vars       == <<engineVars, busVars, rendVars, obsVars>>

----------------------------------------------------------------------------
(* Bounds of the model *)

MaxObjects == 3
MaxCmds    == 2
MaxSubs    == 3
Width      == 2
Height     == 2

----------------------------------------------------------------------------
(* Generic helpers *)

Min(a, b) == IF a < b THEN a ELSE b
Max(a, b) == IF a > b THEN a ELSE b

Range(s) == {s[i] : i \in 1..Len(s)}

SeqsUpTo(S, n) == UNION {[1..k -> S] : k \in 0..n}

\* every ordering of a finite set, as a sequence without repetition
Orderings(S) == {s \in [1..Cardinality(S) -> S] : Range(s) = S}

RECURSIVE Flatten(_)
Flatten(ss) == IF ss = << >> THEN << >> ELSE Head(ss) \o Flatten(Tail(ss))

RemoveAt(s, i) == SubSeq(s, 1, i - 1) \o SubSeq(s, i + 1, Len(s))

----------------------------------------------------------------------------
(* input.rs: Key *)

Keys == {"Left", "Space", "Esc"}

----------------------------------------------------------------------------
(* event.rs: EngineEvent, EventBus *)

NoKey == "-"

KeyPressed(k)  == [type |-> "KeyPressed",  key |-> k, index |-> 0, x |-> 0, y |-> 0]
KeyHeld(k)     == [type |-> "KeyHeld",     key |-> k, index |-> 0, x |-> 0, y |-> 0]
KeyReleased(k) == [type |-> "KeyReleased", key |-> k, index |-> 0, x |-> 0, y |-> 0]
ObjectSpawned(i) == [type |-> "ObjectSpawned", key |-> NoKey, index |-> i, x |-> 0, y |-> 0]
ObjectMoved(i, nx, ny) ==
    [type |-> "ObjectMoved", key |-> NoKey, index |-> i, x |-> nx, y |-> ny]
Custom(s)      == [type |-> "Custom", key |-> s, index |-> 0, x |-> 0, y |-> 0]

NoEvent == [type |-> "None", key |-> NoKey, index |-> 0, x |-> 0, y |-> 0]

\* a subscribed closure: `id` tells the closures apart, `fails_on` is the set
\* of event types on which the closure panics
Listener(id, fails_on) == [id |-> id, fails_on |-> fails_on]

\* the entries of the observation log `trace`: an emit() call, a listener
\* invoked by it, an update handler invoked (with the Vec it returned), the
\* k-th queued command applied
EmitCall(ev)        == [kind |-> "emit",     who |-> 0,    event |-> ev]
ListenerCall(l, ev) == [kind |-> "listener", who |-> l.id, event |-> ev]
HandlerCall(h, ret) == [kind |-> "handler",  who |-> h,    event |-> NoEvent, ret |-> ret]
ApplyCall(k)        == [kind |-> "apply",    who |-> k,    event |-> NoEvent]

\* EventBus::subscribe: push the boxed callback
Subscribed_at_front(subs, l) == <<l>> \o subs
Subscribed(subs, l) == Append(subs, l)

\* EventBus::emit: `for callback in &self.subscribers { callback(&event) }`.
\* The calls made: every subscriber in Vec order, up to and including the
\* first one that panics on this event.
FirstFailing(subs, ev) ==
    LET F == {i \in 1..Len(subs) : ev.type \in subs[i].fails_on}
    IN  IF F = {} THEN 0 ELSE CHOOSE i \in F : \A j \in F : i <= j

EmitCalls_all_listeners(subs, ev) ==
    <<EmitCall(ev)>> \o [i \in 1..Len(subs) |-> ListenerCall(subs[i], ev)]
EmitCalls_reversed(subs, ev) ==
    <<EmitCall(ev)>> \o [i \in 1..Len(subs) |-> ListenerCall(subs[Len(subs) + 1 - i], ev)]
EmitCalls(subs, ev) ==
    LET f == FirstFailing(subs, ev)
        n == IF f = 0 THEN Len(subs) ELSE f
    IN  <<EmitCall(ev)>> \o [i \in 1..n |-> ListenerCall(subs[i], ev)]

EmitPanics(subs, ev) == FirstFailing(subs, ev) # 0

\* a sequence of emits, one after the other; the first panic ends it
RECURSIVE EmitAll(_, _, _)
EmitAll(subs, evs, acc) ==
    IF evs = << >> \/ acc.panicked THEN acc
    ELSE EmitAll(subs, Tail(evs),
                 [acc EXCEPT !.trace = @ \o EmitCalls(subs, Head(evs)),
                             !.panicked = EmitPanics(subs, Head(evs))])

----------------------------------------------------------------------------
(* game_object.rs: GameObject *)

None == << >>
Some(s) == <<s>>

\* GameObject::new
NewGameObject(x, y, character) ==
    [x |-> x, y |-> y, character |-> character, tag |-> "",
     frames |-> <<character>>, current_frame |-> 0, frame_duration |-> 2,
     animation_timer |-> 0, fg_color |-> None, bg_color |-> None]

\* engine.rs:170-179, the body of `for obj in &mut self.objects`
AnimatedObject_stale_glyph(obj, delta_time) ==
    IF Len(obj.frames) > 1
    THEN LET t == obj.animation_timer + delta_time
         IN  IF t >= obj.frame_duration
             THEN [obj EXCEPT !.current_frame = (obj.current_frame + 1) % Len(obj.frames),
                              !.animation_timer = 0]
             ELSE [obj EXCEPT !.animation_timer = t]
    ELSE obj
AnimatedObject_catch_up(obj, delta_time) ==
    IF Len(obj.frames) > 1 /\ obj.frame_duration > 0
    THEN LET t == obj.animation_timer + delta_time
             k == t \div obj.frame_duration
             cf == (obj.current_frame + k) % Len(obj.frames)
         IN  IF k > 0
             THEN [obj EXCEPT !.current_frame = cf,
                              !.character = obj.frames[cf + 1],
                              !.animation_timer = 0]
             ELSE [obj EXCEPT !.animation_timer = t]
    ELSE obj
AnimatedObject(obj, delta_time) ==
    IF Len(obj.frames) > 1
    THEN LET t == obj.animation_timer + delta_time
             cf == (obj.current_frame + 1) % Len(obj.frames)
         IN  IF t >= obj.frame_duration
             THEN [obj EXCEPT !.current_frame = cf,
                              !.character = obj.frames[cf + 1],
                              !.animation_timer = 0]
             ELSE [obj EXCEPT !.animation_timer = t]
    ELSE obj

----------------------------------------------------------------------------
(* engine.rs: EngineCommand *)

NoObject == NewGameObject(0, 0, "")

SpawnObject(obj)      == [op |-> "SpawnObject",   obj |-> obj, index |-> 0, dx |-> 0, dy |-> 0]
DespawnObject(i)      == [op |-> "DespawnObject", obj |-> NoObject, index |-> i, dx |-> 0, dy |-> 0]
MoveObject(i, dx, dy) == [op |-> "MoveObject",    obj |-> NoObject, index |-> i, dx |-> dx, dy |-> dy]
Quit                  == [op |-> "Quit",          obj |-> NoObject, index |-> 0, dx |-> 0, dy |-> 0]

----------------------------------------------------------------------------
(* i32 arithmetic of engine.rs:199-200 *)

I32Max == 2147483647
I32Min == (-I32Max) - 1

\* `as i32` of a usize: two's complement truncation.  The model's integers are
\* 32-bit, so every usize it can hold is at most I32Max and is kept as it is.
AsI32(n) == n

\* does a + d leave the i32 range (a, d both i32)
AddOverflows(a, d) ==
    \/ d > 0 /\ a > I32Max - d
    \/ d < 0 /\ a < I32Min - d

\* a + d wrapped to 32 bits, computed without leaving the i32 range
WrappingAdd(a, d) ==
    IF d > 0 /\ a > I32Max - d THEN ((a - I32Max) - 1) + ((d - I32Max) - 1)
    ELSE IF d < 0 /\ a < I32Min - d THEN ((a + I32Max) + 1) + ((d + I32Max) + 1)
    ELSE a + d

\* (pos as i32 + d).clamp(0, dim as i32 - 1) as usize
\* `+` panics on overflow when overflow checks are on and wraps otherwise;
\* clamp asserts min <= max; `as usize` of a value >= 0 keeps it.
MovedAxis(pos, d, dim, checks) ==
    LET a  == AsI32(pos)
        hi == AsI32(dim) - 1
    IN  IF checks /\ AddOverflows(a, d)
        THEN [panicked |-> TRUE, value |-> pos]
        ELSE IF 0 > hi
        THEN [panicked |-> TRUE, value |-> pos]
        ELSE [panicked |-> FALSE, value |-> Max(0, Min(WrappingAdd(a, d), hi))]

----------------------------------------------------------------------------
(* renderer.rs: Renderer *)

Blank == << >>
Reset == "ESC[0m"

\* Renderer::new: vec![vec![String::new(); width]; height]
NewBuffer(w, h) == [y \in 1..h |-> [x \in 1..w |-> Blank]]

\* Renderer::clear_back_buffer
ClearedBuffer(buf) == [y \in 1..Len(buf) |-> [x \in 1..Len(buf[y]) |-> Blank]]

\* the String built by set_char: fg, bg, character, reset
ComposedCell(obj) == obj.fg_color \o obj.bg_color \o <<obj.character>> \o <<Reset>>

\* Renderer::set_char on the back buffer `buf`
SetCharBuf_clamped(buf, x, y, obj, w, h) ==
    IF w > 0 /\ h > 0
    THEN [buf EXCEPT ![Min(y, h - 1) + 1][Min(x, w - 1) + 1] = ComposedCell(obj)]
    ELSE buf
SetCharBuf_first_wins(buf, x, y, obj, w, h) ==
    IF x < w /\ y < h /\ buf[y + 1][x + 1] = Blank
    THEN [buf EXCEPT ![y + 1][x + 1] = ComposedCell(obj)]
    ELSE buf
SetCharBuf(buf, x, y, obj, w, h) ==
    IF x < w /\ y < h
    THEN [buf EXCEPT ![y + 1][x + 1] = ComposedCell(obj)]
    ELSE buf

\* Renderer::present: what is printed, cell by cell (`row`;`col` are the
\* numbers of the positioning sequence ESC[row;colH)
PresentOutput_only_changed(buf, w, h) ==
    SelectSeq([i \in 1..(w * h) |->
                  [row |-> ((i - 1) \div w) + 1, col |-> ((i - 1) % w) + 1,
                   content |-> buf[((i - 1) \div w) + 1][((i - 1) % w) + 1]]],
              LAMBDA c : c.content # front_buffer[c.row][c.col])
PresentOutput(buf, w, h) ==
    [i \in 1..(w * h) |->
        LET y == (i - 1) \div w
            x == (i - 1) % w
        IN  [row |-> y + 1, col |-> x + 1, content |-> buf[y + 1][x + 1]]]

\* Renderer::present: the front buffer after the loop
PresentedFront(front, back, w, h) ==
    [y \in 1..Len(front) |-> [x \in 1..Len(front[y]) |->
        IF y <= h /\ x <= w THEN back[y][x] ELSE front[y][x]]]

\* engine.rs:216-218: `for obj in &self.objects { set_char(obj.x, obj.y, obj) }`
RECURSIVE DrawnObjects(_, _, _, _)
DrawnObjects(buf, objs, w, h) ==
    IF objs = << >> THEN buf
    ELSE DrawnObjects(SetCharBuf(buf, Head(objs).x, Head(objs).y, Head(objs), w, h),
                      Tail(objs), w, h)

----------------------------------------------------------------------------
(* engine.rs: Engine *)

\* detect_key_transitions: the events emitted, in order.  act_order and
\* prev_order are the iteration orders of active_keys and previous_keys.
RECURSIVE KeyEventsOf(_, _, _, _)
KeyEventsOf(order, type, other, negate) ==
    IF order = << >> THEN << >>
    ELSE LET k == Head(order)
             rest == KeyEventsOf(Tail(order), type, other, negate)
             ev == [type |-> type, key |-> k, index |-> 0, x |-> 0, y |-> 0]
         IN  IF (k \in other) # negate THEN <<ev>> \o rest ELSE rest

KeyTransitionEvents_pressed_twice(act_order, prev_order) ==
       KeyEventsOf(act_order, "KeyPressed", {}, TRUE)
    \o KeyEventsOf(act_order, "KeyHeld", Range(prev_order), FALSE)
    \o KeyEventsOf(prev_order, "KeyReleased", Range(act_order), TRUE)
KeyTransitionEvents_swapped(act_order, prev_order) ==
       KeyEventsOf(act_order, "KeyPressed", Range(prev_order), FALSE)
    \o KeyEventsOf(act_order, "KeyHeld", Range(prev_order), TRUE)
    \o KeyEventsOf(prev_order, "KeyReleased", Range(act_order), TRUE)
KeyTransitionEvents_no_held(act_order, prev_order) ==
       KeyEventsOf(act_order, "KeyPressed", Range(prev_order), TRUE)
    \o KeyEventsOf(prev_order, "KeyReleased", Range(act_order), TRUE)
KeyTransitionEvents(act_order, prev_order) ==
       KeyEventsOf(act_order, "KeyPressed", Range(prev_order), TRUE)
    \o KeyEventsOf(act_order, "KeyHeld", Range(prev_order), FALSE)
    \o KeyEventsOf(prev_order, "KeyReleased", Range(act_order), TRUE)

\* engine.rs:190-209: one arm of `match command`, on the k-th queued command
\* st = [objects, running, trace, panicked, snaps]
SwapRemoveAt(s, i) ==
    IF i = Len(s) THEN SubSeq(s, 1, Len(s) - 1)
    ELSE [SubSeq(s, 1, Len(s) - 1) EXCEPT ![i] = s[Len(s)]]
AppliedDespawn_swap_remove(objs, index) ==
    IF index < Len(objs) THEN SwapRemoveAt(objs, index + 1) ELSE objs
AppliedDespawn_saturating(objs, index) ==
    IF objs = << >> THEN objs
    ELSE RemoveAt(objs, Min(index, Len(objs) - 1) + 1)
AppliedDespawn(objs, index) ==
    IF index < Len(objs) THEN RemoveAt(objs, index + 1) ELSE objs

AppliedMove(st, index, dx, dy) ==
    IF index < Len(st.objects)
    THEN LET obj == st.objects[index + 1]
             ax  == MovedAxis(obj.x, dx, width, overflow_checks)
             ay  == MovedAxis(obj.y, dy, height, overflow_checks)
             ev  == ObjectMoved(index, ax.value, ay.value)
         IN  IF ax.panicked \/ ay.panicked
             THEN [st EXCEPT !.panicked = TRUE]
             ELSE [st EXCEPT !.objects[index + 1].x = ax.value,
                             !.objects[index + 1].y = ay.value,
                             !.trace = @ \o EmitCalls(subscribers, ev),
                             !.panicked = EmitPanics(subscribers, ev)]
    ELSE st

Snap(st) == [objects |-> st.objects, running |-> st.running]

AppliedCommand(st, cmd, k) ==
    LET s == [st EXCEPT !.trace = Append(@, ApplyCall(k))]
        t == CASE cmd.op = "SpawnObject"   -> [s EXCEPT !.objects = Append(@, cmd.obj)]
               [] cmd.op = "DespawnObject" ->
                      [s EXCEPT !.objects = AppliedDespawn(@, cmd.index)]
               [] cmd.op = "MoveObject"    -> AppliedMove(s, cmd.index, cmd.dx, cmd.dy)
               [] cmd.op = "Quit"          -> [s EXCEPT !.running = FALSE]
    IN  [t EXCEPT !.snaps = Append(@, Snap(t))]

\* engine.rs:188-210: `for command in commands`
RECURSIVE AppliedCommands_stop_at_quit(_, _, _)
AppliedCommands_stop_at_quit(st, cmds, k) ==
    IF k > Len(cmds) \/ st.panicked \/ ~st.running THEN st
    ELSE AppliedCommands_stop_at_quit(AppliedCommand(st, cmds[k], k), cmds, k + 1)
RECURSIVE AppliedCommands(_, _, _)
AppliedCommands(st, cmds, k) ==
    IF k > Len(cmds) \/ st.panicked THEN st
    ELSE AppliedCommands(AppliedCommand(st, cmds[k], k), cmds, k + 1)

----------------------------------------------------------------------------
(* The operations *)

Op(name) == [name |-> name, x |-> 0, y |-> 0, obj |-> NoObject, arg |-> "", dt |-> 0]
OpSetChar(x, y, obj) == [Op("set_char") EXCEPT !.x = x, !.y = y, !.obj = obj]
OpUpdate(delta_time) == [Op("update") EXCEPT !.dt = delta_time]

\* Engine::new (engine.rs:68-79) and Renderer::new (renderer.rs:41-52),
\* before Engine::run is called
EngineNew(w, h, checks) ==
    /\ pc = "setup"
    /\ running = TRUE
    /\ objects = << >>
    /\ updatables = 0
    /\ commands = << >>
    /\ subscribers = << >>
    /\ previous_keys = {}
    /\ active_keys = {}
    /\ overflow_checks = checks
    /\ width = w
    /\ height = h
    /\ front_buffer = NewBuffer(w, h)
    /\ back_buffer = NewBuffer(w, h)
    /\ trace = << >>
    /\ queue = << >>
    /\ snaps = << >>
    /\ last_op = Op("new")
    /\ present_ret = "none"
    /\ output = << >>
    /\ cleanups = 0

\* EventBus::subscribe, called on engine.event_bus before run
Subscribe(fails_on) ==
    /\ pc = "setup"
    /\ Len(subscribers) < MaxSubs
    /\ subscribers' = Subscribed(subscribers, Listener(Len(subscribers) + 1, fails_on))
    /\ last_op' = Op("subscribe")
    /\ UNCHANGED <<engineVars, rendVars, trace, queue, snaps, present_ret, output, cleanups>>

\* EventBus::emit, called on engine.event_bus before run
Emit(ev) ==
    /\ pc = "setup"
    /\ trace' = EmitCalls(subscribers, ev)
    /\ pc' = IF EmitPanics(subscribers, ev) THEN "panicked" ELSE pc
    /\ last_op' = Op("emit")
    /\ UNCHANGED <<running, objects, updatables, commands, previous_keys, active_keys,
                   overflow_checks, busVars, rendVars, queue, snaps, present_ret, output,
                   cleanups>>

\* Engine::add_object, called before run
AddObject(obj, max) ==
    /\ pc = "setup"
    /\ Len(objects) < max
    /\ objects' = Append(objects, obj)
    /\ last_op' = Op("add_object")
    /\ UNCHANGED <<pc, running, updatables, commands, previous_keys, active_keys,
                   overflow_checks, busVars, rendVars, trace, queue, snaps, present_ret,
                   output, cleanups>>

\* Engine::add_updatable, called before run
AddUpdatable(max) ==
    /\ pc = "setup"
    /\ updatables < max
    /\ updatables' = updatables + 1
    /\ last_op' = Op("add_updatable")
    /\ UNCHANGED <<pc, running, objects, commands, previous_keys, active_keys,
                   overflow_checks, busVars, rendVars, trace, queue, snaps, present_ret,
                   output, cleanups>>

\* Renderer::clear_back_buffer, called on engine.renderer before run
ClearBackBuffer ==
    /\ pc = "setup"
    /\ back_buffer' = ClearedBuffer(back_buffer)
    /\ last_op' = Op("clear_back_buffer")
    /\ UNCHANGED <<engineVars, busVars, width, height, front_buffer, trace, queue, snaps,
                   present_ret, output, cleanups>>

\* Renderer::set_char, called on engine.renderer before run
SetChar(x, y, obj) ==
    /\ pc = "setup"
    /\ back_buffer' = SetCharBuf(back_buffer, x, y, obj, width, height)
    /\ last_op' = OpSetChar(x, y, obj)
    /\ UNCHANGED <<engineVars, busVars, width, height, front_buffer, trace, queue, snaps,
                   present_ret, output, cleanups>>

\* Renderer::present, called on engine.renderer before run; flush_ok is the
\* outcome of io::stdout().flush()
Present(flush_ok) ==
    /\ pc = "setup"
    /\ output' = PresentOutput(back_buffer, width, height)
    /\ front_buffer' = PresentedFront(front_buffer, back_buffer, width, height)
    /\ present_ret' = IF flush_ok THEN "Ok" ELSE "Err"
    /\ last_op' = Op("present")
    /\ UNCHANGED <<engineVars, busVars, width, height, back_buffer, trace, queue, snaps,
                   cleanups>>

\* `while self.is_running()` (engine.rs:97): where run goes next
LoopTest_always(run) == "input"
LoopTest(run) == IF run THEN "input" ELSE "cleanup"

\* Engine::run up to the first test of `while self.is_running()`
RunStart ==
    /\ pc = "setup"
    /\ pc' = LoopTest(running)
    /\ last_op' = Op("init_terminal")
    /\ UNCHANGED <<running, objects, updatables, commands, previous_keys, active_keys,
                   overflow_checks, busVars, rendVars, trace, queue, snaps, present_ret,
                   output, cleanups>>

\* Engine::process_input: read_active_keys().unwrap_or_default()
\* poll is [ok |-> BOOLEAN, keys |-> the snapshot]
PolledKeys_keep_previous(poll) == IF poll.ok THEN poll.keys ELSE active_keys
PolledKeys(poll) == IF poll.ok THEN poll.keys ELSE {}

ProcessInput(poll) ==
    /\ pc = "input"
    /\ active_keys' = PolledKeys(poll)
    /\ pc' = "update"
    /\ last_op' = [Op("process_input") EXCEPT !.arg = IF poll.ok THEN "Ok" ELSE "Err"]
    /\ trace' = << >>
    /\ queue' = << >>
    /\ snaps' = << >>
    /\ present_ret' = "none"
    /\ output' = << >>
    /\ UNCHANGED <<running, objects, updatables, commands, previous_keys,
                   overflow_checks, busVars, rendVars, cleanups>>

\* engine.rs:164: self.previous_keys = self.active_keys.clone()
NextPrevious_stale(act, prev) == prev
NextPrevious(act, prev) == act

\* engine.rs:167 and 181-185: commands.clear(), then commands.extend(cmds) with
\* what each handler returns
Extended_prepend(rets) == Flatten([h \in 1..Len(rets) |-> rets[Len(rets) + 1 - h]])
Extended(rets) == << >> \o Flatten(rets)

\* engine.rs:188, std::mem::take(&mut self.commands): the Vec handed to the
\* loop and the Vec left in the field
Taken_clone(cmds) == [drained |-> cmds, left |-> cmds]
Taken(cmds) == [drained |-> cmds, left |-> << >>]

\* Engine::update.  rets[h] is the Vec returned by the h-th updatable.
\* last_op keeps, in arg, the outcome of the poll of this frame.
Update(delta_time, act_order, prev_order, rets) ==
    /\ pc = "update"
    /\ act_order \in Orderings(active_keys)
    /\ prev_order \in Orderings(previous_keys)
    /\ DOMAIN rets = 1..updatables
    /\ LET keyed == EmitAll(subscribers, KeyTransitionEvents(act_order, prev_order),
                            [trace |-> << >>, panicked |-> FALSE])
           animated == [i \in 1..Len(objects) |-> AnimatedObject(objects[i], delta_time)]
           handled == [h \in 1..updatables |-> HandlerCall(h, rets[h])]
           taken == Taken(Extended(rets))
           drained == taken.drained
           start == [objects |-> animated, running |-> running,
                     trace |-> keyed.trace \o handled, panicked |-> FALSE,
                     snaps |-> << >>]
           done == AppliedCommands([start EXCEPT !.snaps = <<Snap(start)>>], drained, 1)
       IN  IF keyed.panicked
           THEN /\ pc' = "panicked"
                /\ trace' = keyed.trace
                /\ queue' = << >>
                /\ snaps' = << >>
                /\ UNCHANGED <<running, objects, commands, previous_keys>>
           ELSE /\ pc' = IF done.panicked THEN "panicked" ELSE "render"
                /\ previous_keys' = NextPrevious(active_keys, previous_keys)
                /\ commands' = taken.left
                /\ objects' = done.objects
                /\ running' = done.running
                /\ trace' = done.trace
                /\ queue' = drained
                /\ snaps' = done.snaps
    /\ last_op' = [OpUpdate(delta_time) EXCEPT !.arg = last_op.arg]
    /\ UNCHANGED <<updatables, active_keys, overflow_checks, busVars, rendVars,
                   present_ret, output, cleanups>>

\* Engine::render, the pacing sleep and the next test of `while
\* self.is_running()`.  The io::Result of present() is bound to `_`.
Render(flush_ok) ==
    /\ pc = "render"
    /\ LET drawn == DrawnObjects(ClearedBuffer(back_buffer), objects, width, height)
       IN  /\ back_buffer' = drawn
           /\ output' = PresentOutput(drawn, width, height)
           /\ front_buffer' = PresentedFront(front_buffer, drawn, width, height)
    /\ present_ret' = IF flush_ok THEN "Ok" ELSE "Err"
    /\ pc' = LoopTest(running)
    /\ last_op' = Op("render")
    /\ UNCHANGED <<running, objects, updatables, commands, previous_keys, active_keys,
                   overflow_checks, busVars, width, height, trace, queue, snaps, cleanups>>

\* Engine::cleanup_terminal, then run returns
Cleanup ==
    /\ pc = "cleanup"
    /\ pc' = "done"
    /\ cleanups' = cleanups + 1
    /\ last_op' = Op("cleanup_terminal")
    /\ UNCHANGED <<running, objects, updatables, commands, previous_keys, active_keys,
                   overflow_checks, busVars, rendVars, trace, queue, snaps, present_ret,
                   output>>

----------------------------------------------------------------------------
(* Reading the observation log *)

\* the events passed to emit(), in order
RECURSIVE EmittedEvents(_)
EmittedEvents(t) ==
    IF t = << >> THEN << >>
    ELSE IF Head(t).kind = "emit" THEN <<Head(t).event>> \o EmittedEvents(Tail(t))
    ELSE EmittedEvents(Tail(t))

\* the keys for which an event of the given type was emitted
KeysEmitted(t, type) ==
    {e.key : e \in {ev \in Range(EmittedEvents(t)) : ev.type = type}}

\* the listener ids invoked, in order
RECURSIVE ListenersCalled(_)
ListenersCalled(t) ==
    IF t = << >> THEN << >>
    ELSE IF Head(t).kind = "listener" THEN <<Head(t).who>> \o ListenersCalled(Tail(t))
    ELSE ListenersCalled(Tail(t))

----------------------------------------------------------------------------
(* SpecKeys: the frame loop driven by key snapshots; no objects, no         *)
(* update handlers, listeners that return.                                 *)

Polls == [ok : {TRUE}, keys : SUBSET Keys] \cup [ok : {FALSE}, keys : {{}}]

InitKeys == EngineNew(Width, Height, TRUE)

NextKeys ==
    \/ Subscribe({})
    \/ RunStart
    \/ \E poll \in Polls : ProcessInput(poll)
    \/ pc = "update" /\ \E ao \in Orderings(active_keys), po \in Orderings(previous_keys) :
          Update(1, ao, po, << >>)
    \/ Render(TRUE)

SpecKeys == InitKeys /\ [][NextKeys]_vars

\* C1: one call of detect_key_transitions (the first step of update) emits
\* KeyPressed exactly for the keys of active_keys - previous_keys, KeyHeld
\* exactly for active_keys \cap previous_keys and KeyReleased exactly for
\* previous_keys - active_keys; the three key sets are pairwise disjoint and
\* their union is active_keys \cup previous_keys.
C1_KeyTransitionsPartition ==
    [][(pc = "update" /\ pc' = "render") =>
        LET P == KeysEmitted(trace', "KeyPressed")
            H == KeysEmitted(trace', "KeyHeld")
            R == KeysEmitted(trace', "KeyReleased")
        IN  /\ P = active_keys \ previous_keys
            /\ H = active_keys \cap previous_keys
            /\ R = previous_keys \ active_keys
            /\ P \cap H = {} /\ P \cap R = {} /\ H \cap R = {}
            /\ P \cup H \cup R = active_keys \cup previous_keys]_vars

\* an update has emitted events of all three categories
C1_Witness ==
    /\ pc = "render"
    /\ KeysEmitted(trace, "KeyPressed") # {}
    /\ KeysEmitted(trace, "KeyHeld") # {}
    /\ KeysEmitted(trace, "KeyReleased") # {}

----------------------------------------------------------------------------
(* SpecBus: the EventBus alone; subscribe and emit called in any order,     *)
(* some listeners panic on Custom events.                                  *)

FailSets == {{}, {"Custom"}}
BusEvents == {KeyPressed("Left"), ObjectMoved(0, 1, 1), Custom("GameQuit")}

InitBus == EngineNew(Width, Height, TRUE)

NextBus ==
    \/ \E f \in FailSets : Subscribe(f)
    \/ \E ev \in BusEvents : Emit(ev)

SpecBus == InitBus /\ [][NextBus]_vars

\* C5: an emit that returns has invoked every subscribed listener exactly
\* once with the emitted event, in the order of subscription (the k-th
\* subscribed listener is the k-th called), after any interleaving of
\* subscribe and emit calls; the listeners an emit invokes are always an
\* initial part of that order.
C5_EmitInSubscriptionOrder ==
    last_op.name = "emit" =>
        LET called == ListenersCalled(trace)
        IN  /\ called = [i \in 1..Len(called) |-> i]
            /\ Len(EmittedEvents(trace)) = 1
            /\ \A i \in 1..Len(trace) : trace[i].event = EmittedEvents(trace)[1]
            /\ pc # "panicked" => called = [i \in 1..Len(subscribers) |-> i]

\* an emit to three listeners has returned
C5_Witness ==
    /\ last_op.name = "emit"
    /\ pc = "setup"
    /\ Len(subscribers) = 3
    /\ ListenersCalled(trace) = <<1, 2, 3>>

----------------------------------------------------------------------------
(* SpecRender: the Renderer alone, a grid of Width columns and one row;     *)
(* clear_back_buffer, set_char and present called in any order.            *)

Red == "ESC[31m"

\* A and B share cell (0, 0); C lies beyond the last column
ObjA == NewGameObject(0, 0, "A")
ObjB == [NewGameObject(0, 0, "B") EXCEPT !.fg_color = Some(Red)]
ObjC == NewGameObject(Width, 0, "C")

RenderObjs == {ObjA, ObjB}

InitRender == EngineNew(Width, 1, TRUE)

NextRender ==
    \/ ClearBackBuffer
    \/ \E x \in 0..(width + 1), y \in 0..(height + 1), obj \in RenderObjs :
          SetChar(x, y, obj)
    \/ \E flush_ok \in BOOLEAN : Present(flush_ok)

SpecRender == InitRender /\ [][NextRender]_vars

\* C9: set_char(x, y, obj) with x >= width or y >= height leaves every cell of
\* the back grid and of the front grid unchanged, and it cannot fail: it
\* indexes the back grid only at a cell that exists.  With x < width and
\* y < height it sets back-grid cell (x, y) to the composed cell of obj and
\* changes no other cell of either grid.
C9_SetCharOutOfRangeNoOp ==
    [][last_op'.name = "set_char" =>
        LET x == last_op'.x
            y == last_op'.y
        IN  /\ front_buffer' = front_buffer
            /\ (x >= width \/ y >= height) => back_buffer' = back_buffer
            /\ (x < width /\ y < height) =>
                  /\ y + 1 \in DOMAIN back_buffer
                  /\ x + 1 \in DOMAIN back_buffer[y + 1]
                  /\ back_buffer'[y + 1][x + 1] = ComposedCell(last_op'.obj)
                  /\ DOMAIN back_buffer' = DOMAIN back_buffer
                  /\ \A r \in DOMAIN back_buffer :
                        /\ DOMAIN back_buffer'[r] = DOMAIN back_buffer[r]
                        /\ \A c \in DOMAIN back_buffer[r] :
                              (r # y + 1 \/ c # x + 1) =>
                                  back_buffer'[r][c] = back_buffer[r][c]]_vars

\* a set_char beyond the last column was called on a back grid that holds a
\* written cell and a blank one
C9_Witness ==
    /\ last_op.name = "set_char"
    /\ last_op.x >= width
    /\ \E c \in 1..width : back_buffer[1][c] # Blank
    /\ \E c \in 1..width : back_buffer[1][c] = Blank

----------------------------------------------------------------------------
(* SpecDespawn: the frame loop with one update handler that returns spawn,  *)
(* despawn and quit commands; static objects; the flush of present may     *)
(* fail.                                                                   *)

Templates == {ObjA, ObjB, ObjC}

NoKeys == [ok |-> TRUE, keys |-> {}]

DespawnAlphabet ==
    {SpawnObject(t) : t \in Templates}
        \cup {DespawnObject(i) : i \in 0..MaxObjects} \cup {Quit}

Spawns(q) == Cardinality({k \in 1..Len(q) : q[k].op = "SpawnObject"})

DespawnQueues == SeqsUpTo(DespawnAlphabet, MaxCmds)

\* what the registered handlers may return: rets[h] for handler h
Returns(queues) ==
    {rets \in [1..updatables -> queues] :
        Len(objects) + Spawns(Flatten(rets)) <= MaxObjects}

InitDespawn == EngineNew(Width, Height, TRUE)

NextDespawn ==
    \/ \E obj \in Templates : AddObject(obj, MaxObjects)
    \/ AddUpdatable(1)
    \/ RunStart
    \/ ProcessInput(NoKeys)
    \/ pc = "update" /\ \E rets \in Returns(DespawnQueues) : Update(1, << >>, << >>, rets)
    \/ \E flush_ok \in BOOLEAN : Render(flush_ok)
    \/ Cleanup

SpecDespawn == InitDespawn /\ [][NextDespawn]_vars

\* the k-th drained command found `before` and left `after`
Before(k) == snaps[k].objects
After(k)  == snaps[k + 1].objects

\* C2: despawn commands are applied in queue order, each against the list
\* left by the earlier commands of the frame: a despawn(i) with i a valid
\* index of that list removes its element i and shifts the later elements
\* down by one; on [A, B, C] the queue despawn(0), despawn(0) leaves [C].
C2_DespawnInQueueOrder ==
    last_op.name = "update" =>
        /\ Len(snaps) = Len(queue) + 1
        /\ objects = snaps[Len(snaps)].objects
        /\ \A k \in 1..Len(queue) :
              (queue[k].op = "DespawnObject" /\ queue[k].index < Len(Before(k))) =>
                  /\ Len(After(k)) = Len(Before(k)) - 1
                  /\ \A j \in 1..Len(After(k)) :
                        After(k)[j] = IF j <= queue[k].index THEN Before(k)[j]
                                      ELSE Before(k)[j + 1]
        /\ (queue = <<DespawnObject(0), DespawnObject(0)>> /\ Len(Before(1)) = 3) =>
              objects = <<Before(1)[3]>>

\* the frame despawn(0), despawn(0) was applied to [A, B, C] and left [C]
C2_Witness ==
    /\ last_op.name = "update"
    /\ queue = <<DespawnObject(0), DespawnObject(0)>>
    /\ Before(1) = <<ObjA, ObjB, ObjC>>
    /\ objects = <<ObjC>>

\* C3: a failed flush in present ends the loop: once present has returned
\* Err inside the render step, no further frame is started.
C3_FlushFailureEndsLoop ==
    (last_op.name = "render" /\ present_ret = "Err") => pc \in {"cleanup", "done"}

\* the entities that occupy cell (x, y)
Occupants(x, y) == {i \in 1..Len(objects) : objects[i].x = x /\ objects[i].y = y}

Last(S) == CHOOSE i \in S : \A j \in S : j <= i

\* C8: after a render pass every cell of the grid that entities occupy holds,
\* in the back grid and in the front grid, the composed cell of the entity
\* that comes last in the entity list among them, and a cell that no entity
\* occupies is blank.
C8_RenderLastWriteWins ==
    last_op.name = "render" =>
        \A x \in 0..(width - 1), y \in 0..(height - 1) :
            LET shown == IF Occupants(x, y) = {} THEN Blank
                         ELSE ComposedCell(objects[Last(Occupants(x, y))])
            IN  /\ back_buffer[y + 1][x + 1] = shown
                /\ front_buffer[y + 1][x + 1] = shown

\* A then B at cell (0, 0) were rendered and the cell shows B
C8_Witness ==
    /\ last_op.name = "render"
    /\ \E i, j \in 1..Len(objects) :
          /\ i < j
          /\ objects[i] = ObjA
          /\ objects[j] = ObjB
          /\ Last(Occupants(0, 0)) = j
    /\ front_buffer[1][1] = ComposedCell(ObjB)
    /\ back_buffer[1][1] = ComposedCell(ObjB)

----------------------------------------------------------------------------
(* SpecMove: the frame loop with one update handler that returns move,      *)
(* despawn and quit commands on at most two objects.                        *)

MoveTemplates == {ObjA}

Deltas == {<<-5, 5>>, <<5, -5>>, <<1, 0>>}

MoveAlphabet ==
    {MoveObject(i, d[1], d[2]) : i \in 0..2, d \in Deltas}
        \cup {DespawnObject(i) : i \in 0..2} \cup {Quit}

MoveQueues == SeqsUpTo(MoveAlphabet, MaxCmds)

InitMove == EngineNew(Width, Height, TRUE)

NextMove ==
    \/ \E obj \in MoveTemplates : AddObject(obj, 2)
    \/ AddUpdatable(1)
    \/ RunStart
    \/ ProcessInput(NoKeys)
    \/ pc = "update" /\ \E rets \in Returns(MoveQueues) : Update(1, << >>, << >>, rets)
    \/ Render(TRUE)
    \/ Cleanup

SpecMove == InitMove /\ [][NextMove]_vars

\* the k-th drained command addresses an element of the list it finds
ValidIndex(k) == queue[k].index < Len(Before(k))

\* the entity the k-th drained command addresses, before and after it
Target(k)      == Before(k)[queue[k].index + 1]
MovedTarget(k) == After(k)[queue[k].index + 1]

\* where the k-th drained command starts in the log, and where it ends
ApplyStart(k) == CHOOSE p \in 1..Len(trace) : trace[p] = ApplyCall(k)
ApplyEnd(k) ==
    IF \E p \in 1..Len(trace) : trace[p] = ApplyCall(k + 1)
    THEN ApplyStart(k + 1) - 1
    ELSE Len(trace)

\* the events emitted while the k-th drained command was applied
EventsOfCommand(k) ==
    EmittedEvents(SubSeq(trace, ApplyStart(k) + 1, ApplyEnd(k)))

\* every drained command was applied, in queue order
AllApplied ==
    /\ Len(snaps) = Len(queue) + 1
    /\ \A k \in 1..Len(queue) : \E p \in 1..Len(trace) : trace[p] = ApplyCall(k)
    /\ \A k \in 1..(Len(queue) - 1) : ApplyStart(k) < ApplyStart(k + 1)

\* the effect of a drained command whose index is valid (or that needs none)
HasEffect(k) ==
    CASE queue[k].op = "Quit" -> ~snaps[k + 1].running
      [] queue[k].op = "DespawnObject" -> Len(After(k)) = Len(Before(k)) - 1
      [] queue[k].op = "MoveObject" ->
            /\ Len(EventsOfCommand(k)) = 1
            /\ EventsOfCommand(k)[1] =
                   ObjectMoved(queue[k].index, MovedTarget(k).x, MovedTarget(k).y)
      [] OTHER -> TRUE

\* C10: a despawn(i) or move(i, dx, dy) whose index is not a valid index of
\* the entity list at the moment it is applied changes nothing (length, order
\* and every entity's position are as before, the engine keeps running as it
\* was), emits no event, and the other commands of the frame are all applied
\* with their effect.
C10_InvalidIndexNoOp ==
    (last_op.name = "update" /\ pc # "panicked") =>
        /\ AllApplied
        /\ \A k \in 1..Len(queue) :
              IF queue[k].op \in {"DespawnObject", "MoveObject"} /\ ~ValidIndex(k)
              THEN /\ After(k) = Before(k)
                   /\ snaps[k + 1].running = snaps[k].running
                   /\ EventsOfCommand(k) = << >>
              ELSE HasEffect(k)

\* a frame on two entities drained despawn(0) and then a move with index 1,
\* stale by then, which changed nothing
C10_Witness ==
    /\ last_op.name = "update"
    /\ Len(queue) = 2
    /\ Len(Before(1)) = 2
    /\ queue[1] = DespawnObject(0)
    /\ queue[2].op = "MoveObject" /\ queue[2].index = 1
    /\ After(2) = Before(2)
    /\ Len(objects) = 1

\* a frame drained a move with an invalid index followed by a despawn that
\* removed an entity
C10_WitnessRest ==
    /\ last_op.name = "update"
    /\ Len(queue) = 2
    /\ queue[1].op = "MoveObject" /\ ~ValidIndex(1)
    /\ queue[2].op = "DespawnObject" /\ ValidIndex(2)
    /\ Len(After(2)) = Len(Before(1)) - 1

----------------------------------------------------------------------------
(* SpecMoveWide: the frame loop with one update handler that moves one      *)
(* object by deltas from the whole i32 range, in a build with and in a      *)
(* build without overflow checks.                                           *)

WideDeltas == {<<1, 0>>, <<-5, 5>>, <<5, -5>>, <<I32Max, 0>>}

WideAlphabet == {MoveObject(i, d[1], d[2]) : i \in 0..1, d \in WideDeltas} \cup {Quit}

WideQueues == SeqsUpTo(WideAlphabet, MaxCmds)

InitMoveWide == \E checks \in BOOLEAN : EngineNew(Width, Height, checks)

NextMoveWide ==
    \/ AddObject(ObjA, 1)
    \/ AddUpdatable(1)
    \/ RunStart
    \/ ProcessInput(NoKeys)
    \/ pc = "update" /\ \E rets \in Returns(WideQueues) : Update(1, << >>, << >>, rets)
    \/ Render(TRUE)
    \/ Cleanup

SpecMoveWide == InitMoveWide /\ [][NextMoveWide]_vars

\* clamp(a + d, 0, hi) for 0 <= a and 0 <= hi, in unbounded arithmetic
ClampedSum(a, d, hi) ==
    IF d > 0 /\ a > hi - d THEN hi
    ELSE IF a + d < 0 THEN 0
    ELSE a + d

\* C4: on a grid of width >= 1 and height >= 1 a move(i, dx, dy) with a valid
\* index sets the entity's column to clamp(column + dx, 0, width - 1) and its
\* row to clamp(row + dy, 0, height - 1), each axis on its own: column 0
\* moved by -5 stays 0, column width - 1 moved by +5 stays width - 1, and the
\* position is never negative or beyond the grid.
C4_MoveClamped ==
    (last_op.name = "update" /\ width >= 1 /\ height >= 1) =>
        \A k \in 1..(Len(snaps) - 1) :
            (queue[k].op = "MoveObject" /\ ValidIndex(k)) =>
                /\ Len(After(k)) = Len(Before(k))
                /\ MovedTarget(k).x = ClampedSum(Target(k).x, queue[k].dx, width - 1)
                /\ MovedTarget(k).y = ClampedSum(Target(k).y, queue[k].dy, height - 1)
                /\ MovedTarget(k).x \in 0..(width - 1)
                /\ MovedTarget(k).y \in 0..(height - 1)
                /\ (Target(k).x = 0 /\ queue[k].dx = -5) => MovedTarget(k).x = 0
                /\ (Target(k).x = width - 1 /\ queue[k].dx = 5) =>
                      MovedTarget(k).x = width - 1

----------------------------------------------------------------------------
(* SpecAnim: the frame loop on animated and plain objects, with delta times *)
(* of 0, 0.05, 0.2 and 10 seconds (one tick is 0.05 s).                     *)

\* a 3-frame entity with the default interval of 0.1 s
Torch == [NewGameObject(0, 0, "a") EXCEPT !.frames = <<"a", "b", "c">>]

\* 2-frame entities with an interval of 0 and of -0.1 s
Still    == [NewGameObject(1, 0, "p") EXCEPT !.frames = <<"p", "q">>, !.frame_duration = 0]
StillNeg == [Still EXCEPT !.frame_duration = -2]

AnimTemplates == {Torch, Still, StillNeg, ObjA}

AnimDeltas == {0, 1, 4, 200}

InitAnim == EngineNew(Width, Height, TRUE)

NextAnim ==
    \/ \E obj \in AnimTemplates : AddObject(obj, MaxObjects)
    \/ RunStart
    \/ ProcessInput(NoKeys)
    \/ pc = "update" /\ \E delta_time \in AnimDeltas : Update(delta_time, << >>, << >>, << >>)
    \/ Render(TRUE)

SpecAnim == InitAnim /\ [][NextAnim]_vars

\* C6: an entity whose frame_duration is <= 0 never advances its animation:
\* no update step changes its current-frame index or its displayed glyph.
C6_NonPositiveIntervalNeverAdvances ==
    [][last_op'.name = "update" =>
         \A i \in 1..Len(objects) :
             (i <= Len(objects') /\ objects[i].frame_duration <= 0) =>
                 /\ objects'[i].current_frame = objects[i].current_frame
                 /\ objects'[i].character = objects[i].character]_vars

\* C7: in one update step an entity with more than one frame glyph advances
\* its current-frame index by at most one, whatever the delta time: if
\* accumulator + delta >= interval the index becomes (index + 1) mod
\* len(frames), the glyph is the frame at that index and the accumulator is
\* 0; otherwise the index is unchanged and the accumulator has grown by the
\* delta.  A 3-frame entity with interval 0.1 s given a delta of 10 s
\* advances exactly one index.
C7_AtMostOneFramePerUpdate ==
    [][last_op'.name = "update" =>
         /\ Len(objects') = Len(objects)
         /\ \A i \in 1..Len(objects) :
               LET old  == objects[i]
                   new  == objects'[i]
                   dt   == last_op'.dt
                   next == (old.current_frame + 1) % Len(old.frames)
               IN  Len(old.frames) > 1 =>
                     /\ new.current_frame \in {old.current_frame, next}
                     /\ IF old.animation_timer + dt >= old.frame_duration
                        THEN /\ new.current_frame = next
                             /\ new.character = old.frames[next + 1]
                             /\ new.animation_timer = 0
                        ELSE /\ new.current_frame = old.current_frame
                             /\ new.character = old.character
                             /\ new.animation_timer = old.animation_timer + dt
                     /\ (Len(old.frames) = 3 /\ old.frame_duration = 2 /\ dt = 200) =>
                           /\ new.current_frame = next
                           /\ new.current_frame # old.current_frame
                           /\ new.animation_timer = 0]_vars

\* an update with a delta of 10 s has left a 3-frame entity with interval
\* 0.1 s at index 1, showing its second glyph, accumulator 0
C7_Witness ==
    /\ last_op.name = "update"
    /\ last_op.dt = 200
    /\ \E i \in 1..Len(objects) :
          /\ Len(objects[i].frames) = 3
          /\ objects[i].frame_duration = 2
          /\ objects[i].current_frame = 1
          /\ objects[i].character = "b"
          /\ objects[i].animation_timer = 0

----------------------------------------------------------------------------
(* SpecListen: the frame loop with listeners that panic on KeyPressed or on *)
(* ObjectMoved events, one key, one object and one update handler that      *)
(* returns move and quit commands; the flush of present may fail.           *)

ListenFails == {{}, {"KeyPressed"}, {"ObjectMoved"}}

ListenPolls == [ok : {TRUE}, keys : SUBSET {"Left"}] \cup [ok : {FALSE}, keys : {{}}]

ListenQueues == SeqsUpTo({MoveObject(0, 1, 0), Quit}, MaxCmds)

InitListen == EngineNew(Width, Height, TRUE)

NextListen ==
    \/ \E f \in ListenFails : Subscribe(f)
    \/ AddObject(ObjA, 1)
    \/ AddUpdatable(1)
    \/ RunStart
    \/ \E poll \in ListenPolls : ProcessInput(poll)
    \/ pc = "update" /\ \E ao \in Orderings(active_keys), po \in Orderings(previous_keys),
                           rets \in Returns(ListenQueues) : Update(1, ao, po, rets)
    \/ \E flush_ok \in BOOLEAN : Render(flush_ok)
    \/ Cleanup

SpecListen == InitListen /\ [][NextListen]_vars

\* the p-th entry of the log is a call of a listener that panics on the event
FailingCall(p) ==
    /\ trace[p].kind = "listener"
    /\ trace[p].event.type \in subscribers[trace[p].who].fails_on

\* C11: a listener that panics during emit ends the dispatch of that event
\* and the frame step with it: the failing call is the last thing the update
\* step did (no later listener is invoked for the event, no further event is
\* emitted, no handler runs, no command is applied), and the update step
\* itself panics; an update step without a failing call does not panic.
C11_FailingListenerAborts ==
    last_op.name = "update" =>
        /\ \A p \in 1..Len(trace) : FailingCall(p) => (p = Len(trace) /\ pc = "panicked")
        /\ pc = "panicked" => (trace # << >> /\ FailingCall(Len(trace)))

\* three listeners, the second panics on ObjectMoved: a move was applied,
\* listeners 1 and 2 were called with the event and listener 3 was not
C11_Witness ==
    /\ last_op.name = "update"
    /\ pc = "panicked"
    /\ Len(subscribers) = 3
    /\ Len(trace) >= 3
    /\ trace[Len(trace)].event.type = "ObjectMoved"
    /\ trace[Len(trace)].who = 2
    /\ trace[Len(trace) - 1] = ListenerCall(subscribers[1], trace[Len(trace)].event)
    /\ trace[Len(trace) - 2] = EmitCall(trace[Len(trace)].event)

\* Engine::run has returned or has been unwound by a panic of a frame step
RunEnded == pc = "done" \/ (pc = "panicked" /\ last_op.name = "update")

\* C12: cleanup_terminal is performed exactly once per call of run, after
\* the loop has ended, on every way the loop can end, a frame that failed
\* mid-frame included: never more than once, never while the loop runs, and
\* once run has ended it has been performed.
C12_CleanupExactlyOnce ==
    /\ cleanups <= 1
    /\ cleanups = 1 => pc = "done"
    /\ RunEnded => cleanups = 1

----------------------------------------------------------------------------
(* Quitting, under SpecDespawn *)

\* a quit command is among the commands the update step drained
QuitDrained(q) == \E k \in 1..Len(q) : q[k] = Quit

\* C13: the frame in which a quit command is applied still runs its render
\* step (clear, draw, present of all cells) before the loop exits, and no
\* input poll, update or render of a further frame follows it; only a quit
\* command clears the running flag, and while none has been applied the
\* render step is followed by the input poll of a new frame.
C13_QuitFrameRenders ==
    [][/\ pc = "update" =>
             /\ pc' = "render"
             /\ QuitDrained(queue') <=> ~running'
       /\ pc = "render" =>
             /\ last_op'.name = "render"
             /\ back_buffer' = DrawnObjects(NewBuffer(width, height), objects, width, height)
             /\ Len(output') = width * height
             /\ front_buffer' = back_buffer'
             /\ pc' = IF running THEN "input" ELSE "cleanup"
       /\ running' # running => pc = "update"
       /\ ~running => pc' \in {"render", "cleanup", "done"}
       /\ (~running /\ pc # "render") => last_op'.name = "cleanup_terminal"]_vars

\* the frame that drained a quit command has rendered and the loop has ended
C13_Witness ==
    /\ pc = "cleanup"
    /\ ~running
    /\ last_op.name = "render"
    /\ QuitDrained(queue)
    /\ Len(output) = width * height
    /\ Len(objects) >= 1

----------------------------------------------------------------------------
(* SpecInput: the frame loop driven by key snapshots of three keys and by   *)
(* polls that fail, with listeners that return, one object and one update   *)
(* handler that returns move and quit commands.                             *)

InputQueues == SeqsUpTo({MoveObject(0, 1, 0), Quit}, MaxCmds)

InitInput == EngineNew(Width, Height, TRUE)

NextInput ==
    \/ Subscribe({})
    \/ AddObject(ObjA, 1)
    \/ AddUpdatable(1)
    \/ RunStart
    \/ \E poll \in Polls : ProcessInput(poll)
    \/ pc = "update" /\ \E ao \in Orderings(active_keys), po \in Orderings(previous_keys),
                           rets \in Returns(InputQueues) : Update(1, ao, po, rets)
    \/ Render(TRUE)
    \/ Cleanup

SpecInput == InitInput /\ [][NextInput]_vars

\* the update handlers invoked, in order
HandlersCalled(t) ==
    LET P == {p \in 1..Len(t) : t[p].kind = "handler"}
    IN  {t[p].who : p \in P}

\* C14: when the input poll of a frame fails, the frame's key set is empty
\* and the loop goes on: the update step emits KeyReleased for every key of
\* the previous set and no KeyPressed or KeyHeld, calls every update handler,
\* applies every drained command, and is followed by the render step; the
\* running flag is changed only by a drained quit, never by the failure.
C14_PollFailureIsEmptySnapshot ==
    [][/\ (pc = "input" /\ last_op'.arg = "Err") =>
             /\ active_keys' = {}
             /\ pc' = "update"
             /\ running' = running
       /\ (pc = "update" /\ last_op.arg = "Err") =>
             /\ KeysEmitted(trace', "KeyReleased") = previous_keys
             /\ KeysEmitted(trace', "KeyPressed") = {}
             /\ KeysEmitted(trace', "KeyHeld") = {}
             /\ Len(EmittedEvents(trace')) >= Cardinality(previous_keys)
             /\ HandlersCalled(trace') = 1..updatables
             /\ AllApplied'
             /\ running' = (running /\ ~QuitDrained(queue'))
             /\ pc' = "render"
       /\ (pc = "render" /\ last_op.arg = "Err") =>
             /\ last_op'.name = "render"
             /\ Len(output') = width * height]_vars

\* the poll of a frame failed while two keys were down: its update step
\* released both, called the handler and applied a move
C14_Witness ==
    /\ last_op.name = "update"
    /\ last_op.arg = "Err"
    /\ pc = "render"
    /\ Cardinality(KeysEmitted(trace, "KeyReleased")) = 2
    /\ HandlersCalled(trace) = {1}
    /\ Len(queue) >= 1
    /\ queue[1].op = "MoveObject"
    /\ Len(EventsOfCommand(1)) = 1

\* the commands applied by the update step, by their place in the queue
AppliesLogged(t) == {t[p].who : p \in {q \in 1..Len(t) : t[q].kind = "apply"}}

\* C15: the command queue is empty at the end of every update step and at
\* the start of the next: the commands a frame's handlers return are all
\* applied or ignored in that frame's update step, and a frame whose handlers
\* return nothing applies nothing, whatever earlier frames returned.
C15_QueueEmptyBetweenFrames ==
    [][/\ commands = << >>
       /\ commands' = << >>
       /\ pc = "update" =>
             /\ AppliesLogged(trace') = 1..Len(queue')
             /\ AllApplied'
             /\ updatables = 0 => queue' = << >>
             /\ queue' = << >> =>
                   (objects' = objects /\ running' = running /\ snaps' = <<Snap([objects |-> objects, running |-> running])>>)]_vars

\* after a frame that applied a move, a frame whose handler returned nothing
\* has left the object where it was
C15_Witness ==
    /\ pc = "render"
    /\ last_op.name = "update"
    /\ updatables = 1
    /\ queue = << >>
    /\ commands = << >>
    /\ Len(objects) = 1
    /\ objects[1].x = 1

\* the places of the log where a key event for key k was passed to emit()
KeyEmits(t, k) ==
    {p \in 1..Len(t) : /\ t[p].kind = "emit"
                       /\ t[p].event.type \in {"KeyPressed", "KeyHeld", "KeyReleased"}
                       /\ t[p].event.key = k}

\* the category of key k in a frame with the given current and previous sets
Category(k, act, prev) ==
    IF k \in act /\ k \notin prev THEN "KeyPressed"
    ELSE IF k \in act /\ k \in prev THEN "KeyHeld"
    ELSE "KeyReleased"

\* C16: in every frame each key that is pressed, held or released yields
\* exactly one event, of its category, and no other key yields any; every
\* key event is delivered to every listener, in subscription order, before
\* the first update handler of the frame is invoked.
C16_OneKeyEventBeforeHandlers ==
    [][pc = "update" =>
         /\ \A k \in Keys :
               IF k \in active_keys \cup previous_keys
               THEN /\ Cardinality(KeyEmits(trace', k)) = 1
                    /\ \A p \in KeyEmits(trace', k) :
                          /\ trace'[p].event.type = Category(k, active_keys, previous_keys)
                          /\ \A i \in 1..Len(subscribers) :
                                trace'[p + i] = ListenerCall(subscribers[i], trace'[p].event)
               ELSE KeyEmits(trace', k) = {}
         /\ \A p, q \in 1..Len(trace') :
               (trace'[p].kind = "handler" /\ trace'[q].event.type
                    \in {"KeyPressed", "KeyHeld", "KeyReleased"}) => q < p]_vars

\* an update step has delivered a pressed, a held and a released key to two
\* listeners and then called the handler
C16_Witness ==
    /\ last_op.name = "update"
    /\ Len(subscribers) = 2
    /\ KeysEmitted(trace, "KeyPressed") # {}
    /\ KeysEmitted(trace, "KeyHeld") # {}
    /\ KeysEmitted(trace, "KeyReleased") # {}
    /\ HandlersCalled(trace) = {1}
    /\ trace[10].kind = "handler"

\* C17: in the first frame of an engine made by Engine::new the previous key
\* set is empty (it is empty after new and only an update step changes it),
\* and an update step that finds it empty emits KeyPressed for exactly the
\* keys of the snapshot, once each, and no KeyHeld or KeyReleased, for any
\* snapshot.
C17_FirstFramePressedOnly ==
    [][/\ pc = "setup" => previous_keys = {}
       /\ pc # "update" => previous_keys' = previous_keys
       /\ (pc = "update" /\ previous_keys = {}) =>
             /\ KeysEmitted(trace', "KeyPressed") = active_keys
             /\ KeysEmitted(trace', "KeyHeld") = {}
             /\ KeysEmitted(trace', "KeyReleased") = {}
             /\ \A k \in Keys :
                   Cardinality(KeyEmits(trace', k)) = IF k \in active_keys THEN 1 ELSE 0]_vars

\* an update step has emitted KeyPressed for all three keys, so none of them
\* was in the previous set
C17_Witness ==
    /\ last_op.name = "update"
    /\ KeysEmitted(trace, "KeyPressed") = Keys
    /\ KeysEmitted(trace, "KeyHeld") = {}
    /\ KeysEmitted(trace, "KeyReleased") = {}
    /\ queue = << >>

----------------------------------------------------------------------------
(* Renderer::present, as the last part of the render step (SpecDespawn) and *)
(* called on its own (SpecRender)                                           *)

\* what present prints for the cell in row y, column x (counted from 0) of buf
CellOutput(buf, x, y) == [row |-> y + 1, col |-> x + 1, content |-> buf[y + 1][x + 1]]

ChangedCells(buf, front, w, h) ==
    SelectSeq([i \in 1..(w * h) |-> CellOutput(buf, (i - 1) % w, (i - 1) \div w)],
              LAMBDA c : c.content # front[c.row][c.col])

\* C19: present only updates changed characters: it emits a cell only when
\* the cell's back-buffer content differs from its front-buffer content, so
\* presenting a frame identical to the one presented before emits no cell.
C19_PresentOnlyChangedCells ==
    [][last_op'.name = "present" =>
         /\ output' = ChangedCells(back_buffer, front_buffer, width, height)
         /\ back_buffer = front_buffer => output' = << >>]_vars

----------------------------------------------------------------------------
(* Spawning, under SpecDespawn *)

\* C20: whenever a SpawnObject command is applied, an ObjectSpawned event
\* carrying the new object's index in the objects list is emitted on the
\* event bus.
C20_SpawnEmitsObjectSpawned ==
    last_op.name = "update" =>
        \A k \in 1..Len(queue) :
            queue[k].op = "SpawnObject" =>
                /\ After(k) = Append(Before(k), queue[k].obj)
                /\ \E i \in 1..Len(EventsOfCommand(k)) :
                      EventsOfCommand(k)[i] = ObjectSpawned(Len(Before(k)))

----------------------------------------------------------------------------
(* helpers.rs: check_collision.  SpecCollide calls it on two objects and a  *)
(* slice of tags to ignore.                                                 *)

\* `slice.contains(&s)`
Contains(slice, s) == \E i \in 1..Len(slice) : slice[i] = s

check_collision_ignores_first_only(a, b, ignore_tags) ==
    IF Contains(ignore_tags, a.tag) THEN FALSE
    ELSE a.x = b.x /\ a.y = b.y
check_collision(a, b, ignore_tags) ==
    IF Contains(ignore_tags, a.tag) \/ Contains(ignore_tags, b.tag) THEN FALSE
    ELSE a.x = b.x /\ a.y = b.y

OpCheckCollision(a, b, ignore_tags, ret) ==
    [name |-> "check_collision", x |-> 0, y |-> 0, obj |-> a, arg |-> "", dt |-> 0,
     other |-> b, tags |-> ignore_tags, ret |-> ret]

CheckCollision(a, b, ignore_tags) ==
    /\ pc = "setup"
    /\ last_op' = OpCheckCollision(a, b, ignore_tags, check_collision(a, b, ignore_tags))
    /\ UNCHANGED <<engineVars, busVars, rendVars, trace, queue, snaps, present_ret, output,
                   cleanups>>

CollideTags == {"", "player", "wall", "Player"}

CollidePositions == {<<5, 5>>, <<5, 6>>, <<6, 5>>}

CollideObjs ==
    {[NewGameObject(p[1], p[2], "@") EXCEPT !.tag = t] : p \in CollidePositions, t \in CollideTags}

CollideIgnores == SeqsUpTo({"player", "wall"}, 2)

InitCollide == EngineNew(Width, Height, TRUE)

NextCollide ==
    \E a \in CollideObjs, b \in CollideObjs, ignore_tags \in CollideIgnores :
        CheckCollision(a, b, ignore_tags)

SpecCollide == InitCollide /\ [][NextCollide]_vars

\* C21: check_collision(a, b, ignore_tags) returns true exactly when a and b
\* have the same x and the same y and neither tag is in ignore_tags; the
\* result is the same with a and b exchanged; two objects at (5,5) tagged
\* "player" and "wall" collide with no ignored tags and do not collide when
\* "player" is ignored.
C21_CheckCollision ==
    last_op.name = "check_collision" =>
        LET a == last_op.obj
            b == last_op.other
            ignored == {last_op.tags[i] : i \in 1..Len(last_op.tags)}
        IN  /\ last_op.ret <=>
                  (a.x = b.x /\ a.y = b.y /\ a.tag \notin ignored /\ b.tag \notin ignored)
            /\ last_op.ret = check_collision(b, a, last_op.tags)
            /\ (a.x = 5 /\ a.y = 5 /\ b.x = 5 /\ b.y = 5 /\ a.tag = "player" /\ b.tag = "wall") =>
                  /\ last_op.tags = << >> => last_op.ret
                  /\ last_op.tags = <<"player">> => ~last_op.ret

\* the call on "wall" and "player" at (5,5) with "player" ignored has
\* returned false
C21_Witness ==
    /\ last_op.name = "check_collision"
    /\ last_op.obj.tag = "wall" /\ last_op.other.tag = "player"
    /\ last_op.obj.x = 5 /\ last_op.obj.y = 5
    /\ last_op.other.x = 5 /\ last_op.other.y = 5
    /\ last_op.tags = <<"player">>
    /\ last_op.ret = FALSE

----------------------------------------------------------------------------
(* SpecOrder: the frame loop with two update handlers that return spawn and *)
(* move commands.                                                           *)

OrderQueues == SeqsUpTo({SpawnObject(ObjA), MoveObject(0, 1, 0), MoveObject(1, 1, 0)}, MaxCmds)

InitOrder == EngineNew(Width, Height, TRUE)

NextOrder ==
    \/ AddObject(ObjB, 1)
    \/ AddUpdatable(2)
    \/ RunStart
    \/ ProcessInput(NoKeys)
    \/ pc = "update" /\ \E rets \in Returns(OrderQueues) : Update(1, << >>, << >>, rets)
    \/ Render(TRUE)

SpecOrder == InitOrder /\ [][NextOrder]_vars

\* the places of the log where an update handler was called, in order
HandlerPlaces(t) == SelectSeq([p \in 1..Len(t) |-> p], LAMBDA p : t[p].kind = "handler")

\* what the k-th drained command makes of the list objs
Effect(cmd, objs) ==
    CASE cmd.op = "SpawnObject" -> Append(objs, cmd.obj)
      [] cmd.op = "MoveObject" /\ cmd.index < Len(objs) ->
            [objs EXCEPT ![cmd.index + 1].x = ClampedSum(@, cmd.dx, width - 1),
                         ![cmd.index + 1].y = ClampedSum(@, cmd.dy, height - 1)]
      [] cmd.op = "DespawnObject" /\ cmd.index < Len(objs) ->
            [j \in 1..(Len(objs) - 1) |-> IF j <= cmd.index THEN objs[j] ELSE objs[j + 1]]
      [] OTHER -> objs

\* C22: within a frame the handlers are called in registration order, the
\* queue is what they returned, handler after handler and in the order
\* returned, and the commands are applied first to last, each to the list the
\* earlier commands of the frame left: a spawn followed by a move of the new
\* highest index moves the entity just spawned.
C22_CommandsFifo ==
    (last_op.name = "update" /\ pc # "panicked") =>
        LET places == HandlerPlaces(trace)
        IN  /\ Len(places) = updatables
            /\ \A h \in 1..Len(places) : trace[places[h]].who = h
            /\ queue = Flatten([h \in 1..Len(places) |-> trace[places[h]].ret])
            /\ AllApplied
            /\ \A h \in 1..Len(places) : \A k \in 1..Len(queue) : places[h] < ApplyStart(k)
            /\ \A k \in 1..Len(queue) : After(k) = Effect(queue[k], Before(k))
            /\ objects = snaps[Len(snaps)].objects
            /\ \A k \in 1..(Len(queue) - 1) :
                  (queue[k].op = "SpawnObject"
                       /\ queue[k + 1] = MoveObject(Len(Before(k)), 1, 0)) =>
                      /\ After(k + 1)[Len(After(k + 1))].character = queue[k].obj.character
                      /\ After(k + 1)[Len(After(k + 1))].x =
                             ClampedSum(queue[k].obj.x, 1, width - 1)

\* the first handler returned a spawn, the second a move of index 1, the
\* index of the entity just spawned, which then stands one column further
C22_Witness ==
    /\ last_op.name = "update"
    /\ updatables = 2
    /\ trace[1].kind = "handler" /\ trace[1].ret = <<SpawnObject(ObjA)>>
    /\ trace[2].kind = "handler" /\ trace[2].ret = <<MoveObject(1, 1, 0)>>
    /\ Len(Before(1)) = 1
    /\ objects = <<ObjB, [ObjA EXCEPT !.x = 1]>>

----------------------------------------------------------------------------
(* SpecGrid: the frame loop on grids of width 0 or Width and height 0 or    *)
(* Height, in a build with and in a build without overflow checks, with one *)
(* object and one update handler that returns moves by 1 and by i32::MAX.   *)

GridQueues ==
    SeqsUpTo({MoveObject(0, 1, 0), MoveObject(0, I32Max, 0), MoveObject(1, 1, 0), Quit}, MaxCmds)

InitGrid ==
    \E w \in {0, Width}, h \in {0, Height}, checks \in BOOLEAN : EngineNew(w, h, checks)

NextGrid ==
    \/ AddObject(ObjA, 1)
    \/ AddUpdatable(1)
    \/ RunStart
    \/ ProcessInput(NoKeys)
    \/ pc = "update" /\ \E rets \in Returns(GridQueues) : Update(1, << >>, << >>, rets)
    \/ Render(TRUE)
    \/ Cleanup

SpecGrid == InitGrid /\ [][NextGrid]_vars

\* the drained commands the update step began to apply
Begun == 1..(Len(snaps) - 1)

\* C23: every move applied to a valid index emits exactly one ObjectMoved
\* event, with the index and the entity's stored position after the move
\* (also when the position did not change), after the position is stored and
\* before the next drained command is applied.
C23_MoveEmitsObjectMoved ==
    last_op.name = "update" =>
        \A k \in Begun :
            (queue[k].op = "MoveObject" /\ ValidIndex(k)) =>
                /\ EventsOfCommand(k) =
                       <<ObjectMoved(queue[k].index, MovedTarget(k).x, MovedTarget(k).y)>>
                /\ objects[queue[k].index + 1].x = MovedTarget(k).x
                       \/ \E j \in Begun : j > k

\* C27: applying a move to a valid index never aborts the frame, for every
\* grid size Engine::new accepts (width 0 and height 0 included), every
\* position and every i32 dx, dy: the update step returns and the position
\* is no further right or down than max(0, dimension - 1).
C27_MoveNeverAborts ==
    last_op.name = "update" =>
        /\ pc # "panicked"
        /\ \A k \in Begun :
              (queue[k].op = "MoveObject" /\ ValidIndex(k)) =>
                  /\ MovedTarget(k).x <= Max(0, width - 1)
                  /\ MovedTarget(k).y <= Max(0, height - 1)

----------------------------------------------------------------------------
(* SpecQuit: the frame loop with one update handler that returns quit,      *)
(* spawn, despawn and move commands in any order.                           *)

QuitQueues ==
    SeqsUpTo({Quit, SpawnObject(ObjA), DespawnObject(0), MoveObject(0, 1, 0)}, MaxCmds)

InitQuit == EngineNew(Width, Height, TRUE)

NextQuit ==
    \/ AddObject(ObjB, 1)
    \/ AddUpdatable(1)
    \/ RunStart
    \/ ProcessInput(NoKeys)
    \/ pc = "update" /\ \E rets \in Returns(QuitQueues) : Update(1, << >>, << >>, rets)
    \/ Render(TRUE)
    \/ Cleanup

SpecQuit == InitQuit /\ [][NextQuit]_vars

\* every drained command was applied, with its effect on the list and its
\* event, and the running flag is false from the first quit on
QuitCutsNothingShort ==
    /\ AllApplied
    /\ \A k \in 1..Len(queue) :
          /\ After(k) = Effect(queue[k], Before(k))
          /\ (queue[k].op = "MoveObject" /\ ValidIndex(k)) =>
                EventsOfCommand(k) =
                    <<ObjectMoved(queue[k].index, MovedTarget(k).x, MovedTarget(k).y)>>
          /\ snaps[k + 1].running = (snaps[1].running /\ \A j \in 1..k : queue[j] # Quit)
    /\ objects = snaps[Len(snaps)].objects
    /\ running = snaps[Len(snaps)].running

\* C26: a quit command does not cut the frame's command application short:
\* every command queued after it in the same frame (spawn, despawn, move) is
\* still applied, with its event emitted, before that frame's render; and
\* once the running flag is false no step of the engine sets it to true.
C26_QuitDoesNotCutShort ==
    [][/\ ~running => ~running'
       /\ pc = "update" => (pc' = "render" /\ QuitCutsNothingShort')]_vars

\* a frame drained a quit followed by a spawn: the spawned entity is in the
\* list and the frame is about to render
C26_Witness ==
    /\ last_op.name = "update"
    /\ pc = "render"
    /\ ~running
    /\ queue = <<Quit, SpawnObject(ObjA)>>
    /\ Len(objects) = Len(Before(1)) + 1
    /\ objects[Len(objects)] = ObjA

----------------------------------------------------------------------------
(* The life of a key over the frames, under SpecInput.  A key is live when  *)
(* KeyPressed was emitted for it in an earlier frame and no KeyReleased     *)
(* since: the live keys are the keys of previous_keys.                      *)

\* the types of the key events emitted for key k, in order
KeyEventTypes(t, k) ==
    LET evs == EmittedEvents(t)
    IN  SelectSeq([i \in 1..Len(evs) |-> IF evs[i].key = k THEN evs[i].type ELSE "other"],
                  LAMBDA ty : ty \in {"KeyPressed", "KeyHeld", "KeyReleased"})

\* C24: at the end of every update step the previous key set equals that
\* frame's current key set, and no other step changes it; so each key goes
\* through KeyPressed, then KeyHeld in every following frame in which it
\* stays in the snapshot, then one KeyReleased in the first frame in which
\* it is absent: with no key live at the start, a key that is not live gets
\* KeyPressed (and becomes live) or nothing, a live key gets KeyHeld (and
\* stays live) or KeyReleased (and is no longer live), never anything else.
C24_KeyLifecycle ==
    [][/\ pc = "setup" => previous_keys = {}
       /\ pc # "update" => previous_keys' = previous_keys
       /\ pc = "update" =>
             /\ previous_keys' = active_keys
             /\ \A k \in Keys :
                   LET types == KeyEventTypes(trace', k)
                       live  == k \in previous_keys
                       live2 == k \in previous_keys'
                   IN  /\ ~live =>
                             \/ types = <<"KeyPressed">> /\ k \in active_keys /\ live2
                             \/ types = << >> /\ k \notin active_keys /\ ~live2
                       /\ live =>
                             \/ types = <<"KeyHeld">> /\ k \in active_keys /\ live2
                             \/ types = <<"KeyReleased">> /\ k \notin active_keys /\ ~live2]_vars

\* a frame in which one live key was held and another live key was released
C24_Witness ==
    /\ last_op.name = "update"
    /\ KeyEventTypes(trace, "Left") = <<"KeyHeld">>
    /\ KeyEventTypes(trace, "Space") = <<"KeyReleased">>
    /\ KeyEventTypes(trace, "Esc") = << >>
    /\ previous_keys = {"Left"}

----------------------------------------------------------------------------
(* The frame index, under SpecAnim *)

IndexInRange(obj) == 0 <= obj.current_frame /\ obj.current_frame < Len(obj.frames)

\* C25: every entity that enters the list with 0 <= current_frame <
\* len(frames) keeps 0 <= current_frame < len(frames) over any sequence of
\* engine frames; after each advance its glyph is frames[current_frame]; an
\* entity with a single-frame sequence has index, glyph and accumulator left
\* unchanged by the animation tick.
C25_FrameIndexInRange ==
    [][/\ \A i \in 1..Len(objects) : IndexInRange(objects[i])
       /\ \A i \in 1..Len(objects') : IndexInRange(objects'[i])
       /\ last_op'.name = "update" =>
             \A i \in 1..Len(objects) :
                 LET old == objects[i]
                     new == objects'[i]
                 IN  /\ new.frames = old.frames
                     /\ new.current_frame # old.current_frame =>
                           new.character = new.frames[new.current_frame + 1]
                     /\ (Len(old.frames) > 1
                            /\ old.animation_timer + last_op'.dt >= old.frame_duration) =>
                           new.character = new.frames[new.current_frame + 1]
                     /\ Len(old.frames) = 1 =>
                           /\ new.current_frame = old.current_frame
                           /\ new.character = old.character
                           /\ new.animation_timer = old.animation_timer]_vars

\* a 3-frame entity stands at its last frame, showing that frame's glyph,
\* next to a single-frame entity that is as it was added
C25_Witness ==
    /\ last_op.name = "update"
    /\ \E i, j \in 1..Len(objects) :
          /\ Len(objects[i].frames) = 3
          /\ objects[i].current_frame = 2
          /\ objects[i].character = "c"
          /\ objects[j] = ObjA

====
